---- MODULE Spec2Model ----
(***************************************************************************)
(* vfxdirs: Context construction, configuration parsing with path          *)
(* expansion, and the precedence merge of configuration trees.             *)
(*                                                                         *)
(* Python strings are sequences of one-character strings, so that strip(), *)
(* lower(), the "~" test and the $NAME / ${NAME} substitution are computed *)
(* character by character.  A pathlib.Path is a record [root, parts].      *)
(* None is the value None.  A raised exception is a record [err, where].   *)
(***************************************************************************)
EXTENDS Integers, Sequences, FiniteSets, TLC

VARIABLES
    pc,         \* position of the running scenario
    src,        \* merge session: the configuration sources, lowest precedence first
    nLayers,    \* merge session: overrides supplied so far
    m12,        \* merge session: src1.merged(src2)
    m23,        \* merge session: src2.merged(src3)
    foldL,      \* merge session: (src1.merged(src2)).merged(src3)
    foldR,      \* merge session: src1.merged(src2.merged(src3))
    doc,        \* parse session: the raw nested mapping the caller holds
    nEdits,     \* parse session: assignments made to doc
    parsed,     \* parse session: what from_mapping(doc) returned or raised
    direct,     \* parse session: the tree constructed from doc's items directly
    overlay,    \* parse session: Defaults.merged(parsed).merged(direct)
    typed,      \* path session: the raw path string the caller writes
    penv,       \* path session: the environment mapping handed to from_mapping
    stored,     \* path session: what from_mapping returned or raised
    mem,        \* context session: the mutable mappings the caller and the process hold
    built,      \* context session: what Context.from_env returned
    madeApp,    \* context session: AppConfig(paths=<the caller's paths mapping>)
    madeCfg,    \* context session: VFXDirsConfig(apps=<the caller's apps mapping>)
    joined,     \* context session: cfg.merged(<a tree of the caller's apps mapping now>)
    nMut        \* context session: mutations made after construction

mergeVars == <<src, nLayers, m12, m23, foldL, foldR>>

parseVars == <<doc, nEdits, parsed, direct, overlay>>

pathVars == <<typed, penv, stored>>

ctxVars == <<mem, built, madeApp, madeCfg, joined, nMut>>

vars == <<pc, mergeVars, parseVars, pathVars, ctxVars>>

\* every object is a record with a kind; None is the object of kind "None"
None == [kind |-> "None"]

\* the sessions that are not running hold nothing
IdleMerge ==
    /\ src = None /\ nLayers = 0 /\ m12 = None /\ m23 = None
    /\ foldL = None /\ foldR = None

IdleParse ==
    /\ doc = None /\ nEdits = 0 /\ parsed = None /\ direct = None /\ overlay = None

IdlePath == typed = None /\ penv = None /\ stored = None

IdleCtx ==
    /\ mem = None /\ built = None /\ madeApp = None /\ madeCfg = None /\ joined = None
    /\ nMut = 0

----------------------------------------------------------------------------
(* Bounds *)

\* overrides a caller supplies in one merge session, over all sources
MaxLayers == 3

\* assignments a caller makes to the raw mapping before it is parsed
MaxEdits == 2

\* characters of a raw path string
MaxLen == 4

\* changes a caller makes to its mappings after the objects are built
MaxMutations == 2

----------------------------------------------------------------------------
(* Strings *)

Whitespace == {" "}

\* str.lower() on the letters the model uses
LowerChar(c) ==
    CASE c = "M" -> "m"
      [] c = "N" -> "n"
      [] c = "C" -> "c"
      [] c = "L" -> "l"
      [] c = "H" -> "h"
      [] c = "X" -> "x"
      [] OTHER -> c

Lower(s) == [i \in 1..Len(s) |-> LowerChar(s[i])]

RECURSIVE LStrip(_)
LStrip(s) ==
    IF s # <<>> /\ Head(s) \in Whitespace THEN LStrip(Tail(s)) ELSE s

RECURSIVE RStrip(_)
RStrip(s) ==
    IF s # <<>> /\ s[Len(s)] \in Whitespace
    THEN RStrip(SubSeq(s, 1, Len(s) - 1))
    ELSE s

\* str.strip()
Strip(s) == RStrip(LStrip(s))

----------------------------------------------------------------------------
(* Exceptions *)

\* VFXDirsConfigError: field, app and key say where, msg says what is wrong
ConfigError(field, app, key, msg) ==
    [kind |-> "VFXDirsConfigError", field |-> field, app |-> app, key |-> key, msg |-> msg]

IsError(x) == x.kind = "VFXDirsConfigError"

----------------------------------------------------------------------------
(* keys.py, config.py: normalisation *)

\* config.py imports normalize_key from keys.py, which does not define it
normalize_key(key) == Lower(Strip(key))

StripOnly_normalize_app_id(app_id) ==
    LET raw == Strip(app_id)
    IN  IF raw = <<>> THEN ConfigError("app_id", <<>>, <<>>, "empty") ELSE [kind |-> "str", val |-> raw]

\* returns the normalised identifier as [kind |-> "str", val], or the error raised
_normalize_app_id(app_id) ==
    LET raw == Lower(Strip(app_id))
    IN  IF raw = <<>> THEN ConfigError("app_id", <<>>, <<>>, "empty") ELSE [kind |-> "str", val |-> raw]

----------------------------------------------------------------------------
(* pathlib.Path *)

\* str.split("/") without the empty pieces
RECURSIVE SplitSlash(_, _)
SplitSlash(s, cur) ==
    IF s = <<>> THEN (IF cur = <<>> THEN <<>> ELSE <<cur>>)
    ELSE IF Head(s) = "/"
         THEN (IF cur = <<>> THEN <<>> ELSE <<cur>>) \o SplitSlash(Tail(s), <<>>)
         ELSE SplitSlash(Tail(s), Append(cur, Head(s)))

RECURSIVE LeadingSlashes(_)
LeadingSlashes(s) ==
    IF s # <<>> /\ Head(s) = "/" THEN 1 + LeadingSlashes(Tail(s)) ELSE 0

\* Path(s) on POSIX: exactly two leading slashes are kept, "." pieces dropped
PathOf(s) ==
    LET n == LeadingSlashes(s)
    IN  [kind  |-> "Path",
         root  |-> IF n = 0 THEN <<>> ELSE IF n = 2 THEN <<"/", "/">> ELSE <<"/">>,
         parts |-> SelectSeq(SplitSlash(s, <<>>), LAMBDA seg : seg # <<".">>)]

is_absolute(p) == p.root # <<>>

\* base / p
JoinPath(base, p) ==
    IF is_absolute(p) THEN p
    ELSE [kind |-> "Path", root |-> base.root, parts |-> base.parts \o p.parts]

RECURSIVE JoinParts(_)
JoinParts(parts) ==
    IF parts = <<>> THEN <<>>
    ELSE IF Len(parts) = 1 THEN parts[1]
    ELSE parts[1] \o <<"/">> \o JoinParts(Tail(parts))

\* str(p)
StrOfPath(p) ==
    IF p.root = <<>> /\ p.parts = <<>> THEN <<".">>
    ELSE p.root \o JoinParts(p.parts)

----------------------------------------------------------------------------
(* context.py *)

\* an optional string argument that is given
Str(v) == [kind |-> "str", val |-> v]

\* a reference to a mapping object on the heap
Ref(id) == [kind |-> "ref", id |-> id]

\* os.environ
OsEnviron == Ref("os_environ")

HOME == <<"H", "O", "M", "E">>
USERPROFILE == <<"U", "S", "E", "R", "P", "R", "O", "F", "I", "L", "E">>
XDG_CONFIG_HOME == <<"X", "D", "G", "_", "C", "O", "N", "F", "I", "G", "_", "H", "O", "M", "E">>
XDG_DATA_HOME == <<"X", "D", "G", "_", "D", "A", "T", "A", "_", "H", "O", "M", "E">>
XDG_CACHE_HOME == <<"X", "D", "G", "_", "C", "A", "C", "H", "E", "_", "H", "O", "M", "E">>
APPDATA == <<"A", "P", "P", "D", "A", "T", "A">>
LOCALAPPDATA == <<"L", "O", "C", "A", "L", "A", "P", "P", "D", "A", "T", "A">>
ProgramFiles == <<"P", "r", "o", "g", "r", "a", "m", "F", "i", "l", "e", "s">>
ProgramW6432 == <<"P", "r", "o", "g", "r", "a", "m", "W", "6", "4", "3", "2">>
ProgramFilesX86 == <<"P", "r", "o", "g", "r", "a", "m", "F", "i", "l", "e", "s", "(", "x", "8", "6", ")">>

RuntimeError == [kind |-> "RuntimeError"]

\* sys.platform is "win32", "darwin", "linux" or something else
_detect_os_name(platform) ==
    CASE platform = "win32" -> Str("windows")
      [] platform = "darwin" -> Str("macos")
      [] platform = "linux" -> Str("linux")
      [] OTHER -> RuntimeError

\* env.get(name) is truthy
Truthy(env, name) == name \in DOMAIN env /\ env[name] # <<>>

\* Path.home() is proc.home
_home_from_env(os_name, env, proc) ==
    LET name == IF os_name = "windows" THEN USERPROFILE ELSE HOME
    IN  IF Truthy(env, name) THEN PathOf(env[name]) ELSE proc.home

\* p / name
Sub(p, name) == JoinPath(p, PathOf(name))

\* Path(env.get(name, default))
PathFromEnv(env, name, default) ==
    IF name \in DOMAIN env THEN PathOf(env[name]) ELSE default

\* mutant: APPDATA and LOCALAPPDATA are used whenever they are set
SetNotTruthy_PathIfTruthy(env, name, default) ==
    IF name \in DOMAIN env THEN PathOf(env[name]) ELSE default

\* Path(env.get(name)) if env.get(name) else default
PathIfTruthy(env, name, default) ==
    IF Truthy(env, name) THEN PathOf(env[name]) ELSE default

ProgramRoots(env) ==
    LET names == <<ProgramFiles, ProgramW6432, ProgramFilesX86>>
        found == SelectSeq(names, LAMBDA n : Truthy(env, n))
    IN  [i \in 1..Len(found) |-> PathOf(env[found[i]])]

\* Context.from_env(env, os_name=, home=, cwd=): env is None or a reference to
\* the caller's mapping; the Context keeps the reference, not a copy.
\* heap maps each mapping object to its contents, proc holds what the process
\* reports (sys.platform, Path.home(), Path.cwd(), tempfile.gettempdir())
Context_from_env(env, os_name, home, cwd, heap, proc) ==
    LET env_ref == IF env = None THEN OsEnviron ELSE env
        env_map == heap[env_ref.id]
        detected == IF os_name # None THEN os_name ELSE _detect_os_name(proc.platform)
    IN  IF detected = RuntimeError THEN RuntimeError
        ELSE
        LET detected_os == detected.val
            resolved_home ==
                IF home # None THEN home ELSE _home_from_env(detected_os, env_map, proc)
            resolved_cwd == IF cwd # None THEN cwd ELSE proc.cwd
            library == Sub(resolved_home, <<"L", "i", "b", "r", "a", "r", "y">>)
            config_home ==
                CASE detected_os = "linux" ->
                        PathFromEnv(env_map, XDG_CONFIG_HOME, Sub(resolved_home, <<".", "c", "o", "n", "f", "i", "g">>))
                  [] detected_os = "macos" -> Sub(library, <<"A", "p", "p", "l", "i", "c", "a", "t", "i", "o", "n", " ", "S", "u", "p", "p", "o", "r", "t">>)
                  [] OTHER ->
                        PathIfTruthy(env_map, APPDATA, Sub(resolved_home, <<"A", "p", "p", "D", "a", "t", "a", "/", "R", "o", "a", "m", "i", "n", "g">>))
            data_home ==
                CASE detected_os = "linux" ->
                        PathFromEnv(env_map, XDG_DATA_HOME, Sub(resolved_home, <<".", "l", "o", "c", "a", "l", "/", "s", "h", "a", "r", "e">>))
                  [] detected_os = "macos" -> Sub(library, <<"A", "p", "p", "l", "i", "c", "a", "t", "i", "o", "n", " ", "S", "u", "p", "p", "o", "r", "t">>)
                  [] OTHER -> config_home
            cache_home ==
                CASE detected_os = "linux" ->
                        PathFromEnv(env_map, XDG_CACHE_HOME, Sub(resolved_home, <<".", "c", "a", "c", "h", "e">>))
                  [] detected_os = "macos" -> Sub(library, <<"C", "a", "c", "h", "e", "s">>)
                  [] OTHER ->
                        PathIfTruthy(env_map, LOCALAPPDATA, Sub(resolved_home, <<"A", "p", "p", "D", "a", "t", "a", "/", "L", "o", "c", "a", "l">>))
            install_roots ==
                CASE detected_os = "linux" ->
                        <<PathOf(<<"/", "o", "p", "t">>), PathOf(<<"/", "u", "s", "r", "/", "l", "o", "c", "a", "l">>), PathOf(<<"/", "u", "s", "r">>)>>
                  [] detected_os = "macos" ->
                        <<PathOf(<<"/", "A", "p", "p", "l", "i", "c", "a", "t", "i", "o", "n", "s">>), PathOf(<<"/", "A", "p", "p", "l", "i", "c", "a", "t", "i", "o", "n", "s", "/", "U", "t", "i", "l", "i", "t", "i", "e", "s">>)>>
                  [] OTHER ->
                        IF ProgramRoots(env_map) # <<>> THEN ProgramRoots(env_map)
                        ELSE <<PathOf(<<"C", ":", "/", "P", "r", "o", "g", "r", "a", "m", " ", "F", "i", "l", "e", "s">>)>>
        IN  [kind          |-> "Context",
             os            |-> detected_os,
             env           |-> env_ref,
             home          |-> resolved_home,
             cwd           |-> resolved_cwd,
             temp_dir      |-> proc.tmp,
             config_home   |-> config_home,
             data_home     |-> data_home,
             cache_home    |-> cache_home,
             install_roots |-> install_roots]

\* ctx.env read now: the mapping the stored reference points to
Context_env(ctx, heap) == heap[ctx.env.id]

----------------------------------------------------------------------------
(* config.py: the configuration tree *)

InstallOverride(root, executable) ==
    [kind |-> "InstallOverride", root |-> root, executable |-> executable]

\* mutant: the executable is chosen by testing higher.root
RootTested_InstallOverride_merged(self, higher) ==
    InstallOverride(
        IF higher.root # None THEN higher.root ELSE self.root,
        IF higher.root # None THEN higher.executable ELSE self.executable)

InstallOverride_merged(self, higher) ==
    InstallOverride(
        IF higher.root # None THEN higher.root ELSE self.root,
        IF higher.executable # None THEN higher.executable ELSE self.executable)

\* the (key, value) pairs of a stored mapping, in some order
RECURSIVE Items(_)
Items(f) ==
    IF DOMAIN f = {} THEN <<>>
    ELSE LET k == CHOOSE x \in DOMAIN f : TRUE
         IN  <<<<k, f[k]>>>> \o Items([x \in DOMAIN f \ {k} |-> f[x]])

\* index of the last of keys that equals k
LastIndex(keys, k) ==
    CHOOSE i \in 1..Len(keys) :
        /\ keys[i] = k
        /\ \A j \in (i + 1)..Len(keys) : keys[j] # k

\* AppConfig(base=, install=, paths=): __post_init__ stores the paths under
\* normalised keys, a later item replacing an earlier one of the same key
AppConfig(base, install, paths) ==
    [kind    |-> "AppConfig",
     base    |-> base,
     install |-> install,
     paths   |-> [k \in {normalize_key(paths[i][1]) : i \in 1..Len(paths)} |->
                    paths[LastIndex([i \in 1..Len(paths) |-> normalize_key(paths[i][1])],
                                    k)][2]]]

AppConfig_path_override(self, key) ==
    IF normalize_key(key) \in DOMAIN self.paths
    THEN self.paths[normalize_key(key)]
    ELSE None

\* mutant: update() applied the wrong way round, lower's paths win
LowerWins_AppConfig_merged(self, higher) ==
    LET merged_paths ==
            [k \in DOMAIN self.paths \cup DOMAIN higher.paths |->
                IF k \in DOMAIN self.paths THEN self.paths[k] ELSE higher.paths[k]]
    IN  AppConfig(
            IF higher.base # None THEN higher.base ELSE self.base,
            InstallOverride_merged(self.install, higher.install),
            Items(merged_paths))

AppConfig_merged(self, higher) ==
    LET merged_paths ==
            [k \in DOMAIN self.paths \cup DOMAIN higher.paths |->
                IF k \in DOMAIN higher.paths THEN higher.paths[k] ELSE self.paths[k]]
    IN  AppConfig(
            IF higher.base # None THEN higher.base ELSE self.base,
            InstallOverride_merged(self.install, higher.install),
            Items(merged_paths))

NormId(app_id) == _normalize_app_id(app_id).val

\* VFXDirsConfig(apps=): __post_init__ stores the apps under normalised
\* identifiers; an identifier that is empty after trimming raises
VFXDirsConfig(apps) ==
    IF \E i \in 1..Len(apps) : IsError(_normalize_app_id(apps[i][1]))
    THEN ConfigError("app_id", <<>>, <<>>, "empty")
    ELSE [kind |-> "VFXDirsConfig",
          apps |-> [a \in {NormId(apps[i][1]) : i \in 1..Len(apps)} |->
                      apps[LastIndex([i \in 1..Len(apps) |-> NormId(apps[i][1])], a)][2]]]

EmptyConfig == VFXDirsConfig(<<>>)

\* returns the AppConfig, None, or the error _normalize_app_id raises
VFXDirsConfig_app(self, app_id) ==
    LET id == _normalize_app_id(app_id)
    IN  IF IsError(id) THEN id
        ELSE IF id.val \in DOMAIN self.apps THEN self.apps[id.val] ELSE None

VFXDirsConfig_path_override(self, app_id, key) ==
    LET app_cfg == VFXDirsConfig_app(self, app_id)
    IN  IF app_cfg = None \/ IsError(app_cfg) THEN app_cfg
        ELSE AppConfig_path_override(app_cfg, key)

\* mutant: merged_apps starts empty, so an app of lower alone is dropped
HigherAppsOnly_VFXDirsConfig_merged(self, higher) ==
    IF higher = None THEN self
    ELSE LET merged_apps ==
                 [a \in DOMAIN higher.apps |->
                     IF a \notin DOMAIN self.apps THEN higher.apps[a]
                     ELSE AppConfig_merged(self.apps[a], higher.apps[a])]
         IN  VFXDirsConfig(Items(merged_apps))

\* mutant: an absent higher source yields an empty configuration
NoneIsEmpty_VFXDirsConfig_merged(self, higher) ==
    IF higher = None THEN VFXDirsConfig(<<>>)
    ELSE LET merged_apps ==
                 [a \in DOMAIN self.apps \cup DOMAIN higher.apps |->
                     IF a \notin DOMAIN higher.apps THEN self.apps[a]
                     ELSE IF a \notin DOMAIN self.apps THEN higher.apps[a]
                     ELSE AppConfig_merged(self.apps[a], higher.apps[a])]
         IN  VFXDirsConfig(Items(merged_apps))

VFXDirsConfig_merged(self, higher) ==
    IF higher = None THEN self
    ELSE LET merged_apps ==
                 [a \in DOMAIN self.apps \cup DOMAIN higher.apps |->
                     IF a \notin DOMAIN higher.apps THEN self.apps[a]
                     ELSE IF a \notin DOMAIN self.apps THEN higher.apps[a]
                     ELSE AppConfig_merged(self.apps[a], higher.apps[a])]
         IN  VFXDirsConfig(Items(merged_apps))

----------------------------------------------------------------------------
(* config.py: path expansion *)

\* the characters \w does not match, among those the model uses
NonWord == {"~", "/", "\\", "$", "{", "}", " ", ".", ":"}

\* last index of the run of \w characters that starts at i, or i - 1
RECURSIVE WordRunEnd(_, _)
WordRunEnd(s, i) ==
    IF i <= Len(s) /\ s[i] \notin NonWord THEN WordRunEnd(s, i + 1) ELSE i - 1

\* index of the first "}" at or after i, or 0
RECURSIVE CloseBrace(_, _)
CloseBrace(s, i) ==
    IF i > Len(s) THEN 0
    ELSE IF s[i] = "}" THEN i
    ELSE CloseBrace(s, i + 1)

\* the match of \$(\w+)|\$\{([^}]+)\} that starts at i: [last, var], last = 0 for none
MatchAt(s, i) ==
    IF s[i] # "$" THEN [last |-> 0, var |-> <<>>]
    ELSE IF WordRunEnd(s, i + 1) > i
         THEN [last |-> WordRunEnd(s, i + 1),
               var  |-> SubSeq(s, i + 1, WordRunEnd(s, i + 1))]
    ELSE IF i + 1 <= Len(s) /\ s[i + 1] = "{" /\ CloseBrace(s, i + 2) > i + 2
         THEN [last |-> CloseBrace(s, i + 2),
               var  |-> SubSeq(s, i + 2, CloseBrace(s, i + 2) - 1)]
    ELSE [last |-> 0, var |-> <<>>]

\* _ENV_VAR_PATTERN.sub(repl, value) from index i on
RECURSIVE PatternSub(_, _, _)
PatternSub(s, i, env) ==
    IF i > Len(s) THEN <<>>
    ELSE LET m == MatchAt(s, i)
         IN  IF m.last = 0 THEN <<s[i]>> \o PatternSub(s, i + 1, env)
             ELSE (IF m.var \in DOMAIN env THEN env[m.var] ELSE SubSeq(s, i, m.last))
                  \o PatternSub(s, m.last + 1, env)

_expand_env_vars(value, env) == PatternSub(value, 1, env)

_expand_user(value, home) ==
    IF value = <<"~">> THEN StrOfPath(home)
    ELSE IF Len(value) >= 2 /\ value[1] = "~" /\ value[2] \in {"/", "\\"}
         THEN StrOfPath(home) \o SubSeq(value, 2, Len(value))
    ELSE value

\* mutant: the environment is expanded before the "~"
EnvFirst__parse_path(raw, env, home, base_dir, field, app, key) ==
    IF raw.kind # "str" THEN ConfigError(field, app, key, "string")
    ELSE IF Strip(raw.val) = <<>> THEN ConfigError(field, app, key, "empty")
    ELSE LET expanded == _expand_user(_expand_env_vars(Strip(raw.val), env), home)
             p == PathOf(expanded)
         IN  IF ~is_absolute(p) THEN JoinPath(base_dir, p) ELSE p

\* mutant: a string that is empty after trimming is not rejected
NoEmptyCheck__parse_path(raw, env, home, base_dir, field, app, key) ==
    IF raw.kind # "str" THEN ConfigError(field, app, key, "string")
    ELSE LET expanded == _expand_env_vars(_expand_user(Strip(raw.val), home), env)
             p == PathOf(expanded)
         IN  IF ~is_absolute(p) THEN JoinPath(base_dir, p) ELSE p

\* returns the Path, or the error raised; (field, app, key) is `where`
_parse_path(raw, env, home, base_dir, field, app, key) ==
    IF raw.kind # "str" THEN ConfigError(field, app, key, "string")
    ELSE IF Strip(raw.val) = <<>> THEN ConfigError(field, app, key, "empty")
    ELSE LET expanded == _expand_env_vars(_expand_user(Strip(raw.val), home), env)
             p == PathOf(expanded)
         IN  IF ~is_absolute(p) THEN JoinPath(base_dir, p) ELSE p

----------------------------------------------------------------------------
(* config.py: from_mapping *)

\* the raw values of a nested mapping: None, Str(s), and
RawInt(n) == [kind |-> "int", val |-> n]

RawBool(b) == [kind |-> "bool", val |-> b]

RawList(l) == [kind |-> "list", val |-> l]

\* a Mapping: its (key, value) items in insertion order, keys distinct
Table(items) == [kind |-> "table", val |-> items]

EmptyTable == Table(<<>>)

IsMapping(v) == v.kind = "table"

\* bool(v) is False
Falsy(v) ==
    \/ v = None
    \/ v.kind \in {"str", "list", "table"} /\ v.val = <<>>
    \/ v.kind = "int" /\ v.val = 0
    \/ v.kind = "bool" /\ v.val = FALSE

Has(tbl, key) == \E i \in 1..Len(tbl.val) : tbl.val[i][1] = key

Get(tbl, key) == tbl.val[CHOOSE i \in 1..Len(tbl.val) : tbl.val[i][1] = key][2]

GetOr(tbl, key, default) == IF Has(tbl, key) THEN Get(tbl, key) ELSE default

\* the first error of a sequence of results, or None
FirstError(results) ==
    IF \E i \in 1..Len(results) : IsError(results[i])
    THEN results[CHOOSE i \in 1..Len(results) :
                    /\ IsError(results[i])
                    /\ \A j \in 1..(i - 1) : ~IsError(results[j])]
    ELSE None

\* tbl[name] parsed as a path when it is there and not None, else None
OptionalPath(tbl, name, env, home, base_dir, field, app) ==
    IF Has(tbl, name) /\ Get(tbl, name) # None
    THEN _parse_path(Get(tbl, name), env, home, base_dir, field, app, <<>>)
    ELSE None

\* one round of the loop over raw_apps.items(): <<app_id, AppConfig>> or the error
ParseApp(raw_app_id, raw_app_tbl, env, home, base_dir) ==
    LET id == _normalize_app_id(raw_app_id)
    IN  IF IsError(id) THEN id
        ELSE IF ~IsMapping(raw_app_tbl)
             THEN ConfigError("apps.app", id.val, <<>>, "table")
        ELSE
        LET app_id == id.val
            base == OptionalPath(raw_app_tbl, "base", env, home, base_dir,
                                 "apps.app.base", app_id)
            got_install == GetOr(raw_app_tbl, "install", EmptyTable)
            install_tbl == IF Falsy(got_install) THEN EmptyTable ELSE got_install
            got_paths == GetOr(raw_app_tbl, "paths", EmptyTable)
            paths_tbl == IF Falsy(got_paths) THEN EmptyTable ELSE got_paths
        IN  IF IsError(base) THEN base
            ELSE IF ~IsMapping(install_tbl)
                 THEN ConfigError("apps.app.install", app_id, <<>>, "table")
            ELSE
            LET install_root == OptionalPath(install_tbl, "root", env, home, base_dir,
                                             "apps.app.install.root", app_id)
                install_exe == OptionalPath(install_tbl, "executable", env, home, base_dir,
                                            "apps.app.install.executable", app_id)
            IN  IF IsError(install_root) THEN install_root
                ELSE IF IsError(install_exe) THEN install_exe
                ELSE IF ~IsMapping(paths_tbl)
                     THEN ConfigError("apps.app.paths", app_id, <<>>, "table")
                ELSE
                LET values == [i \in 1..Len(paths_tbl.val) |->
                                 _parse_path(paths_tbl.val[i][2], env, home, base_dir,
                                             "apps.app.paths.key", app_id,
                                             paths_tbl.val[i][1])]
                    paths == [i \in 1..Len(paths_tbl.val) |->
                                <<normalize_key(paths_tbl.val[i][1]), values[i]>>]
                IN  IF FirstError(values) # None THEN FirstError(values)
                    ELSE [kind |-> "item",
                          id   |-> app_id,
                          cfg  |-> AppConfig(base,
                                             InstallOverride(install_root, install_exe),
                                             paths)]

\* VFXDirsConfig.from_mapping(data, base_dir=, env=, context=): env is None or a
\* reference to a mapping, context is None or a Context
VFXDirsConfig_from_mapping(data, base_dir, env, context, heap, proc) ==
    IF ~IsMapping(data) THEN ConfigError("root", <<>>, <<>>, "table")
    ELSE
    LET ctx == IF context # None THEN context
               ELSE Context_from_env(env, None, None, None, heap, proc)
    IN  IF ctx = RuntimeError THEN RuntimeError
        ELSE
        LET env_map == IF env = None THEN Context_env(ctx, heap) ELSE heap[env.id]
            got_apps == GetOr(data, "apps", EmptyTable)
            raw_apps == IF got_apps = None THEN EmptyTable ELSE got_apps
        IN  IF ~IsMapping(raw_apps) THEN ConfigError("apps", <<>>, <<>>, "table")
            ELSE
            LET results == [i \in 1..Len(raw_apps.val) |->
                              ParseApp(raw_apps.val[i][1], raw_apps.val[i][2],
                                       env_map, ctx.home, base_dir)]
            IN  IF FirstError(results) # None THEN FirstError(results)
                ELSE VFXDirsConfig([i \in 1..Len(results) |->
                                      <<results[i].id, results[i].cfg>>])

\* VFXDirsConfig.load(path, env=, context=): exists says whether the file is
\* there, data is what tomllib reads from it, base_dir is path.parent
VFXDirsConfig_load(exists, data, base_dir, env, context, heap, proc) ==
    IF ~exists THEN None
    ELSE VFXDirsConfig_from_mapping(data, base_dir, env, context, heap, proc)

----------------------------------------------------------------------------
(* Merge session: a caller builds three sources and merges them *)

Sources == 1..3

AppIds == {<<"m">>, <<"n">>}

Keys == {<<"c">>, <<"l">>}

PathVals == {PathOf(<<"/", "a">>), PathOf(<<"/", "b">>)}

NoInstall == InstallOverride(None, None)

\* the AppConfig values that set no field or the base
BaseOverrides ==
    {AppConfig(None, NoInstall, <<>>)}
    \cup {AppConfig(p, NoInstall, <<>>) : p \in PathVals}

\* the AppConfig values that set at most one field
Overrides ==
    BaseOverrides
    \cup {AppConfig(None, InstallOverride(p, None), <<>>) : p \in PathVals}
    \cup {AppConfig(None, InstallOverride(None, p), <<>>) : p \in PathVals}
    \cup {AppConfig(None, NoInstall, <<<<k, p>>>>) : k \in Keys, p \in PathVals}

\* the overrides the session supplies for an app: every field of "m", the
\* presence and the base of "n"
OverridesFor(app) == IF app = <<"m">> THEN Overrides ELSE BaseOverrides

Loaded(i) == src[i] # None

\* source 1 is the tree merged is called on; a higher source is a tree or the
\* None that load returns for a file that does not exist
InitMerge ==
    /\ pc = "build"
    /\ IdleParse /\ IdlePath /\ IdleCtx
    /\ src \in {f \in [Sources -> {None, EmptyConfig}] : f[1] # None}
    /\ nLayers = 0
    /\ m12 = None
    /\ m23 = None
    /\ foldL = None
    /\ foldR = None

\* the caller layers one more override on source i:
\* src_i.merged(VFXDirsConfig(apps={app: ov}))
Supply(i, app, ov) ==
    /\ pc = "build"
    /\ nLayers < MaxLayers
    /\ Loaded(i)
    /\ src' = [src EXCEPT ![i] =
                 VFXDirsConfig_merged(src[i], VFXDirsConfig(<<<<app, ov>>>>))]
    /\ nLayers' = nLayers + 1
    /\ UNCHANGED <<pc, m12, m23, foldL, foldR, parseVars, pathVars, ctxVars>>

\* src1.merged(src2).merged(src3)
FoldLeft ==
    /\ pc = "build"
    /\ m12' = VFXDirsConfig_merged(src[1], src[2])
    /\ foldL' = VFXDirsConfig_merged(m12', src[3])
    /\ pc' = "left"
    /\ UNCHANGED <<src, nLayers, m23, foldR, parseVars, pathVars, ctxVars>>

\* src1.merged(src2.merged(src3))
FoldRight ==
    /\ pc = "left"
    /\ Loaded(2)
    /\ m23' = VFXDirsConfig_merged(src[2], src[3])
    /\ foldR' = VFXDirsConfig_merged(src[1], m23')
    /\ pc' = "done"
    /\ UNCHANGED <<src, nLayers, m12, foldL, parseVars, pathVars, ctxVars>>

NextMerge ==
    \/ \E i \in Sources, app \in AppIds : \E ov \in OverridesFor(app) : Supply(i, app, ov)
    \/ FoldLeft
    \/ FoldRight

SpecMerge == InitMerge /\ [][NextMerge]_vars

----------------------------------------------------------------------------
(* Parse session: a caller fills a raw mapping, parses it, builds the same  *)
(* overrides by direct construction and merges both over fixed defaults     *)

\* what the process reports
Proc ==
    [platform |-> "linux",
     home     |-> PathOf(<<"/", "h">>),
     cwd      |-> PathOf(<<"/", "w">>),
     tmp      |-> PathOf(<<"/", "t">>)]

\* the mapping objects of the parse session
ParseHeap ==
    [os_environ |-> (<<"X">> :> <<"/", "o">>),
     caller     |-> (<<"X">> :> <<"/", "e">>)]

ParseContext ==
    Context_from_env(Ref("caller"), Str("linux"), PathOf(<<"/", "h">>), None,
                     ParseHeap, Proc)

ConfigDir == PathOf(<<"/", "c", "f", "g">>)

NonTables ==
    {Str(<<>>), RawInt(0), RawBool(FALSE), RawList(<<>>), Str(<<"x">>)}

ShapeVals == NonTables \cup {None, EmptyTable}

PathRaws ==
    {Str(<<>>), Str(<<" ">>), Str(<<"/", "a">>), Str(<<" ", "/", "b", " ">>),
     Str(<<"r">>), RawInt(0), None}

RawIds == {<<"m">>, <<" ", "M">>, <<"n">>}

RawPathKeys == {<<"c">>, <<"C", " ">>, <<"l">>}

\* d[key] = val
SetItem(tbl, key, val) ==
    IF Has(tbl, key)
    THEN Table([i \in 1..Len(tbl.val) |->
                  IF tbl.val[i][1] = key THEN <<key, val>> ELSE tbl.val[i]])
    ELSE Table(Append(tbl.val, <<key, val>>))

\* d[k1][k2]...[kn] = val can be written: every table on the way is a table
RECURSIVE CanSet(_, _)
CanSet(tbl, path) ==
    /\ IsMapping(tbl)
    /\ Len(path) > 1 /\ Has(tbl, path[1]) => CanSet(Get(tbl, path[1]), Tail(path))

\* d.setdefault(k1, {}).setdefault(k2, {})...[kn] = val
RECURSIVE SetIn(_, _, _)
SetIn(tbl, path, val) ==
    IF Len(path) = 1 THEN SetItem(tbl, path[1], val)
    ELSE SetItem(tbl, path[1],
                 SetIn(GetOr(tbl, path[1], EmptyTable), Tail(path), val))

\* where a table is expected: every such place of app "m", the entry of "n"
ShapePlaces ==
    {<<"apps">>, <<"apps", <<"m">>>>, <<"apps", <<"n">>>>}
    \cup {<<"apps", <<"m">>, f>> : f \in {"install", "paths"}}

\* where a path is expected: every such place of app "m", the base and the
\* keys of its other spelling, the base of app "n"
PathPlaces ==
    {<<"apps", id, "base">> : id \in RawIds}
    \cup {<<"apps", <<"m">>, "install", f>> : f \in {"root", "executable"}}
    \cup {<<"apps", id, "paths", k>> : id \in {<<"m">>, <<" ", "M">>}, k \in RawPathKeys}

InitParse ==
    /\ pc = "edit"
    /\ doc = EmptyTable
    /\ nEdits = 0
    /\ parsed = None /\ direct = None /\ overlay = None
    /\ IdleMerge /\ IdlePath /\ IdleCtx

\* the caller passes something that is no mapping at all
ReplaceRoot(v) ==
    /\ pc = "edit"
    /\ nEdits < MaxEdits
    /\ doc' = v
    /\ nEdits' = nEdits + 1
    /\ UNCHANGED <<pc, parsed, direct, overlay, mergeVars, pathVars, ctxVars>>

\* the caller assigns v at a place of the raw mapping
Edit(path, v) ==
    /\ pc = "edit"
    /\ nEdits < MaxEdits
    /\ CanSet(doc, path)
    /\ doc' = SetIn(doc, path, v)
    /\ nEdits' = nEdits + 1
    /\ UNCHANGED <<pc, parsed, direct, overlay, mergeVars, pathVars, ctxVars>>

FromMapping ==
    /\ pc = "edit"
    /\ parsed' = VFXDirsConfig_from_mapping(doc, ConfigDir, None, ParseContext,
                                            ParseHeap, Proc)
    /\ pc' = "parsed"
    /\ UNCHANGED <<doc, nEdits, direct, overlay, mergeVars, pathVars, ctxVars>>

\* the tables and strings of doc are such that the caller can hand them to the
\* constructors: tables where tables go, strings or None where paths go
Constructible(d) ==
    /\ IsMapping(d)
    /\ IsMapping(GetOr(d, "apps", EmptyTable))
    /\ \A i \in 1..Len(GetOr(d, "apps", EmptyTable).val) :
        LET e == GetOr(d, "apps", EmptyTable).val[i][2]
        IN  /\ IsMapping(e)
            /\ GetOr(e, "base", None).kind \in {"None", "str"}
            /\ IsMapping(GetOr(e, "install", EmptyTable))
            /\ GetOr(GetOr(e, "install", EmptyTable), "root", None).kind \in {"None", "str"}
            /\ GetOr(GetOr(e, "install", EmptyTable), "executable", None).kind
                 \in {"None", "str"}
            /\ IsMapping(GetOr(e, "paths", EmptyTable))
            /\ \A j \in 1..Len(GetOr(e, "paths", EmptyTable).val) :
                 GetOr(e, "paths", EmptyTable).val[j][2].kind = "str"

\* Path(v) if v is not None else None
OptPath(v) == IF v = None THEN None ELSE PathOf(v.val)

\* AppConfig(base=Path(..), install=InstallOverride(..), paths={key: Path(..)})
DirectApp(e) ==
    AppConfig(OptPath(GetOr(e, "base", None)),
              InstallOverride(OptPath(GetOr(GetOr(e, "install", EmptyTable), "root", None)),
                              OptPath(GetOr(GetOr(e, "install", EmptyTable),
                                            "executable", None))),
              [j \in 1..Len(GetOr(e, "paths", EmptyTable).val) |->
                 <<GetOr(e, "paths", EmptyTable).val[j][1],
                   PathOf(GetOr(e, "paths", EmptyTable).val[j][2].val)>>])

\* VFXDirsConfig(apps={raw_id: AppConfig(..)}) from the items of doc as they are
Construct ==
    /\ pc = "parsed"
    /\ Constructible(doc)
    /\ direct' = VFXDirsConfig([i \in 1..Len(GetOr(doc, "apps", EmptyTable).val) |->
                     <<GetOr(doc, "apps", EmptyTable).val[i][1],
                       DirectApp(GetOr(doc, "apps", EmptyTable).val[i][2])>>])
    /\ pc' = "built"
    /\ UNCHANGED <<doc, nEdits, parsed, overlay, mergeVars, pathVars, ctxVars>>

\* built-in defaults, constructed with the spellings a person writes
Defaults ==
    VFXDirsConfig(<<
        <<<<"M", " ">>,
          AppConfig(PathOf(<<"/", "d">>), NoInstall,
                    <<<<<<" ", "L">>, PathOf(<<"/", "d", "/", "l">>)>>>>)>>
    >>)

\* Defaults.merged(parsed).merged(direct), without parsed when parsing raised
Overlay ==
    /\ pc = "built"
    /\ ~IsError(direct)
    /\ overlay' = VFXDirsConfig_merged(
                      IF IsError(parsed) THEN Defaults
                      ELSE VFXDirsConfig_merged(Defaults, parsed),
                      direct)
    /\ pc' = "merged"
    /\ UNCHANGED <<doc, nEdits, parsed, direct, mergeVars, pathVars, ctxVars>>

NextParse ==
    \/ \E v \in NonTables : ReplaceRoot(v)
    \/ \E path \in ShapePlaces, v \in ShapeVals : Edit(path, v)
    \/ \E path \in PathPlaces, v \in PathRaws : Edit(path, v)
    \/ FromMapping
    \/ Construct
    \/ Overlay

SpecParse == InitParse /\ [][NextParse]_vars

----------------------------------------------------------------------------
(* Path session: one raw path string goes through from_mapping *)

\* the characters a caller types into a path value
PathChars == {"~", "/", "\\", "$", "{", "}", "X", " "}

\* the environment mappings handed to from_mapping: X is unset, or set to an
\* absolute path, to a "~", or to a reference to itself
PathEnvs ==
    {<<>>,
     <<"X">> :> <<"/", "e">>,
     <<"X">> :> <<"~">>,
     <<"X">> :> <<"$", "X">>}

\* os.environ holds another X than the mapping handed over
PathHeap(env) == [os_environ |-> (<<"X">> :> <<"/", "o">>), caller |-> env]

\* the Context of the session: home /h, working directory /w
PathContext(env) ==
    Context_from_env(None, Str("linux"), PathOf(<<"/", "h">>), PathOf(<<"/", "w">>),
                     PathHeap(env), Proc)

\* {"apps": {"m": {"base": v, "install": {"root": v, "executable": v},
\*                 "paths": {"c": v}}}}
PathDoc(v) ==
    Table(<< <<"apps", Table(<< << <<"m">>,
        Table(<< <<"base", v>>,
                 <<"install", Table(<< <<"root", v>>, <<"executable", v>> >>)>>,
                 <<"paths", Table(<< << <<"c">>, v>> >>)>> >>) >> >>)>> >>)

InitPath ==
    /\ pc = "type"
    /\ typed = <<>>
    /\ penv \in PathEnvs
    /\ stored = None
    /\ IdleMerge /\ IdleParse /\ IdleCtx

\* the caller types one more character of the path value
Type(c) ==
    /\ pc = "type"
    /\ Len(typed) < MaxLen
    /\ typed' = Append(typed, c)
    /\ UNCHANGED <<pc, penv, stored, mergeVars, parseVars, ctxVars>>

\* VFXDirsConfig.from_mapping(PathDoc(typed), base_dir=ConfigDir, env=penv,
\*                            context=PathContext)
StorePath ==
    /\ pc = "type"
    /\ stored' = VFXDirsConfig_from_mapping(PathDoc(Str(typed)), ConfigDir,
                     Ref("caller"), PathContext(penv), PathHeap(penv), Proc)
    /\ pc' = "stored"
    /\ UNCHANGED <<typed, penv, mergeVars, parseVars, ctxVars>>

NextPath ==
    \/ \E c \in PathChars : Type(c)
    \/ StorePath

SpecPath == InitPath /\ [][NextPath]_vars

----------------------------------------------------------------------------
(* Context session: objects are built from mappings the caller goes on to change *)

EnvValues == {<<>>, <<"/", "x">>}

\* the caller's environment: the XDG variables or the Windows ones, each of
\* them unset, empty or a path
CallerEnvs ==
    UNION {[S -> EnvValues] : S \in SUBSET {XDG_CONFIG_HOME, XDG_DATA_HOME, XDG_CACHE_HOME}}
    \cup UNION {[S -> EnvValues] : S \in SUBSET {APPDATA, LOCALAPPDATA}}

\* what from_env is called with: nothing, or the caller's mapping with an OS
\* and a home override, or without the home override
FromEnvArgs ==
    {<<None, None, None>>, <<Ref("caller"), Str("windows"), None>>}
    \cup {<<Ref("caller"), Str(os), PathOf(<<"/", "u">>)>> :
            os \in {"linux", "macos", "windows"}}

InitCtx ==
    /\ pc = "env"
    /\ \E e \in CallerEnvs :
        mem = [os_environ |-> (HOME :> <<"/", "o">>),
               caller     |-> e,
               paths      |-> << <<<<" ", "C">>, PathOf(<<"/", "a">>)>> >>,
               apps       |-> <<>>]
    /\ built = None /\ madeApp = None /\ madeCfg = None /\ joined = None
    /\ nMut = 0
    /\ IdleMerge /\ IdleParse /\ IdlePath

\* built = Context.from_env(env, os_name=, home=)
FromEnv(env, os_name, home) ==
    /\ pc = "env"
    /\ built' = Context_from_env(env, os_name, home, None, mem, Proc)
    /\ pc' = "ctx"
    /\ UNCHANGED <<mem, madeApp, madeCfg, joined, nMut, mergeVars, parseVars, pathVars>>

\* madeApp = AppConfig(paths=paths)
NewApp ==
    /\ pc = "ctx"
    /\ madeApp' = AppConfig(None, NoInstall, mem.paths)
    /\ pc' = "app"
    /\ UNCHANGED <<mem, built, madeCfg, joined, nMut, mergeVars, parseVars, pathVars>>

\* apps = {"M ": madeApp}; madeCfg = VFXDirsConfig(apps=apps)
NewConfig ==
    /\ pc = "app"
    /\ mem' = [mem EXCEPT !.apps = << <<<<"M", " ">>, madeApp>> >>]
    /\ madeCfg' = VFXDirsConfig(mem'.apps)
    /\ pc' = "built"
    /\ UNCHANGED <<built, madeApp, joined, nMut, mergeVars, parseVars, pathVars>>

\* d[key] = val on a mapping held as items
PutItem(items, key, val) ==
    IF \E i \in 1..Len(items) : items[i][1] = key
    THEN [i \in 1..Len(items) |-> IF items[i][1] = key THEN <<key, val>> ELSE items[i]]
    ELSE Append(items, <<key, val>>)

\* os.environ[name] = val, or env[name] = val on the caller's mapping
SetEnv(id, name, val) ==
    /\ pc = "built"
    /\ nMut < MaxMutations
    /\ mem' = [mem EXCEPT ![id] = (name :> val) @@ mem[id]]
    /\ nMut' = nMut + 1
    /\ UNCHANGED <<pc, built, madeApp, madeCfg, joined, mergeVars, parseVars, pathVars>>

\* del env[name]
DelEnv(id, name) ==
    /\ pc = "built"
    /\ nMut < MaxMutations
    /\ name \in DOMAIN mem[id]
    /\ mem' = [mem EXCEPT ![id] = [n \in DOMAIN mem[id] \ {name} |-> mem[id][n]]]
    /\ nMut' = nMut + 1
    /\ UNCHANGED <<pc, built, madeApp, madeCfg, joined, mergeVars, parseVars, pathVars>>

\* paths[key] = val on the mapping madeApp was built from
SetPathItem(key, val) ==
    /\ pc = "built"
    /\ nMut < MaxMutations
    /\ mem' = [mem EXCEPT !.paths = PutItem(mem.paths, key, val)]
    /\ nMut' = nMut + 1
    /\ UNCHANGED <<pc, built, madeApp, madeCfg, joined, mergeVars, parseVars, pathVars>>

\* apps[app_id] = AppConfig(base=val) on the mapping madeCfg was built from
SetAppItem(app_id, val) ==
    /\ pc = "built"
    /\ nMut < MaxMutations
    /\ mem' = [mem EXCEPT !.apps = PutItem(mem.apps, app_id, AppConfig(val, NoInstall, <<>>))]
    /\ nMut' = nMut + 1
    /\ UNCHANGED <<pc, built, madeApp, madeCfg, joined, mergeVars, parseVars, pathVars>>

\* joined = madeCfg.merged(VFXDirsConfig(apps=apps)), apps as it is now
Merge ==
    /\ pc = "built"
    /\ joined' = VFXDirsConfig_merged(madeCfg, VFXDirsConfig(mem.apps))
    /\ UNCHANGED <<pc, mem, built, madeApp, madeCfg, nMut, mergeVars, parseVars, pathVars>>

NextCtx ==
    \/ \E a \in FromEnvArgs : FromEnv(a[1], a[2], a[3])
    \/ NewApp
    \/ NewConfig
    \/ \E id \in {"os_environ", "caller"}, name \in {HOME, APPDATA} :
          SetEnv(id, name, <<"/", "y">>)
    \/ \E name \in {XDG_CONFIG_HOME, APPDATA} : DelEnv("caller", name)
    \/ \E key \in {<<" ", "C">>, <<"l">>} : SetPathItem(key, PathOf(<<"/", "b">>))
    \/ \E app_id \in {<<"M", " ">>, <<"n">>} : SetAppItem(app_id, PathOf(<<"/", "b">>))
    \/ Merge

SpecCtx == InitCtx /\ [][NextCtx]_vars

----------------------------------------------------------------------------
(* Spellings used for lookups *)

UpperChar(c) ==
    CASE c = "m" -> "M"
      [] c = "n" -> "N"
      [] c = "c" -> "C"
      [] c = "l" -> "L"
      [] OTHER -> c

Upper(s) == [i \in 1..Len(s) |-> UpperChar(s[i])]

Spellings(s) == {s, <<" ">> \o Upper(s) \o <<" ">>}

RawAppIds == UNION {Spellings(a) : a \in AppIds}

RawKeys == UNION {Spellings(k) : k \in Keys}

----------------------------------------------------------------------------
(* C1 *)

AllLoaded == \A i \in Sources : Loaded(i)

\* C1: merge is associative: for three configuration trees, merging the first
\* two and then the third gives the same tree as merging the first with the
\* merge of the last two
C1_Associative == (pc = "done" /\ AllLoaded) => foldL = foldR

\* three trees that all set the base of one app, to values that differ
C1_Witness ==
    /\ pc = "done"
    /\ AllLoaded
    /\ \E a \in AppIds :
        /\ \A i \in Sources : a \in DOMAIN src[i].apps /\ src[i].apps[a].base # None
        /\ src[1].apps[a].base # src[2].apps[a].base
        /\ src[2].apps[a].base # src[3].apps[a].base
        /\ foldL.apps[a].base = src[3].apps[a].base

----------------------------------------------------------------------------
(* C2 *)

\* C2: merge has an identity on both sides: T.merged(empty) = T,
\* empty.merged(T) = T and T.merged(None) = T for every source T, and in a
\* chain of merges the absent and the empty sources do not change the result
C2_Identity ==
    /\ \A i \in Sources : (pc = "left" /\ Loaded(i)) =>
        /\ VFXDirsConfig_merged(src[i], EmptyConfig) = src[i]
        /\ VFXDirsConfig_merged(EmptyConfig, src[i]) = src[i]
        /\ VFXDirsConfig_merged(src[i], None) = src[i]
    /\ pc \in {"left", "done"} =>
        /\ (src[2] \in {None, EmptyConfig} => m12 = src[1])
        /\ (src[3] \in {None, EmptyConfig} => foldL = m12)
        /\ (src[1] = EmptyConfig /\ Loaded(2) => m12 = src[2])

\* a source with two apps merged with an absent and with an empty source
C2_Witness ==
    /\ pc = "left"
    /\ src[2] = None
    /\ src[3] = EmptyConfig
    /\ DOMAIN src[1].apps = AppIds
    /\ \E a \in AppIds : src[1].apps[a].paths # <<>>
    /\ foldL = src[1]

----------------------------------------------------------------------------
(* C3 *)

\* what the claim says of merged = lower.merged(higher)
PathUnion(lower, higher, merged) ==
    /\ \A a \in RawAppIds, k \in RawKeys :
        VFXDirsConfig_path_override(merged, a, k) =
            IF VFXDirsConfig_path_override(higher, a, k) # None
            THEN VFXDirsConfig_path_override(higher, a, k)
            ELSE VFXDirsConfig_path_override(lower, a, k)
    /\ DOMAIN merged.apps = DOMAIN lower.apps \cup DOMAIN higher.apps
    /\ \A a \in DOMAIN merged.apps :
        /\ a \notin DOMAIN higher.apps => merged.apps[a].paths = lower.apps[a].paths
        /\ a \notin DOMAIN lower.apps => merged.apps[a].paths = higher.apps[a].paths
        /\ a \in DOMAIN lower.apps =>
             DOMAIN lower.apps[a].paths \subseteq DOMAIN merged.apps[a].paths

\* C3: per-key path overrides merge as a key-wise union in which higher wins:
\* the merged override of (app, key) is higher's when higher defines it, else
\* lower's; an app on one side keeps its paths; lower's other keys are kept
C3_PathUnion ==
    pc \in {"left", "done"} =>
        /\ Loaded(2) => PathUnion(src[1], src[2], m12)
        /\ Loaded(3) => PathUnion(m12, src[3], foldL)

\* both sides define one key of an app with different values, and lower
\* defines a second key that higher does not
C3_Witness ==
    /\ pc = "left"
    /\ Loaded(2)
    /\ \E a \in AppIds, k1 \in Keys, k2 \in Keys :
        /\ a \in DOMAIN src[1].apps /\ a \in DOMAIN src[2].apps
        /\ k1 \in DOMAIN src[1].apps[a].paths /\ k1 \in DOMAIN src[2].apps[a].paths
        /\ src[1].apps[a].paths[k1] # src[2].apps[a].paths[k1]
        /\ k2 \in DOMAIN src[1].apps[a].paths /\ k2 \notin DOMAIN src[2].apps[a].paths
        /\ m12.apps[a].paths[k1] = src[2].apps[a].paths[k1]
        /\ m12.apps[a].paths[k2] = src[1].apps[a].paths[k2]

----------------------------------------------------------------------------
(* C4 *)

Pick(hi, lo) == IF hi # None THEN hi ELSE lo

\* what the claim says of merged = lower.merged(higher)
ScalarPrecedence(lower, higher, merged) ==
    \A a \in DOMAIN lower.apps \cap DOMAIN higher.apps :
        /\ a \in DOMAIN merged.apps
        /\ merged.apps[a].base = Pick(higher.apps[a].base, lower.apps[a].base)
        /\ merged.apps[a].install.root =
             Pick(higher.apps[a].install.root, lower.apps[a].install.root)
        /\ merged.apps[a].install.executable =
             Pick(higher.apps[a].install.executable, lower.apps[a].install.executable)

\* C4: for an app present in lower and higher, the merged base, install.root
\* and install.executable are each higher's value when higher has one, else
\* lower's, each field on its own
C4_ScalarPrecedence ==
    pc \in {"left", "done"} =>
        /\ Loaded(2) => ScalarPrecedence(src[1], src[2], m12)
        /\ Loaded(3) => ScalarPrecedence(m12, src[3], foldL)

\* conflicting bases, and an install.root that only lower sets while higher
\* sets install.executable
C4_Witness ==
    /\ pc = "left"
    /\ Loaded(2)
    /\ \E a \in AppIds :
        /\ a \in DOMAIN src[1].apps /\ a \in DOMAIN src[2].apps
        /\ src[1].apps[a].base # None /\ src[2].apps[a].base # None
        /\ src[1].apps[a].base # src[2].apps[a].base
        /\ m12.apps[a].base = src[2].apps[a].base
    /\ \E a \in AppIds :
        /\ a \in DOMAIN src[1].apps /\ a \in DOMAIN src[2].apps
        /\ src[1].apps[a].install.root # None
        /\ src[2].apps[a].install.root = None
        /\ m12.apps[a].install.root = src[1].apps[a].install.root

----------------------------------------------------------------------------
(* What a raw mapping holds, read as the claims read it *)

AppsOf(d) == IF IsMapping(d) THEN GetOr(d, "apps", EmptyTable) ELSE EmptyTable

\* the app entries from_mapping is given: <<raw id, entry>> in order
Entries(d) == IF IsMapping(AppsOf(d)) THEN AppsOf(d).val ELSE <<>>

\* present: there and not None
Present(tbl, name) == IsMapping(tbl) /\ Has(tbl, name) /\ Get(tbl, name) # None

\* the fields that are present and are not tables
ShapeFaults(d) ==
    (IF ~IsMapping(d) THEN {"root"} ELSE {})
    \cup (IF Present(d, "apps") /\ ~IsMapping(Get(d, "apps")) THEN {"apps"} ELSE {})
    \cup {"apps.app" : i \in {j \in 1..Len(Entries(d)) : ~IsMapping(Entries(d)[j][2])}}
    \cup {"apps.app.install" : i \in {j \in 1..Len(Entries(d)) :
            /\ Present(Entries(d)[j][2], "install")
            /\ ~IsMapping(Get(Entries(d)[j][2], "install"))}}
    \cup {"apps.app.paths" : i \in {j \in 1..Len(Entries(d)) :
            /\ Present(Entries(d)[j][2], "paths")
            /\ ~IsMapping(Get(Entries(d)[j][2], "paths"))}}

\* a raw value that is no usable path: not a string, or empty after trimming
BadPath(v) == v.kind # "str" \/ Strip(v.val) = <<>>

InstallOf(e) ==
    IF Present(e, "install") /\ IsMapping(Get(e, "install"))
    THEN Get(e, "install") ELSE EmptyTable

PathsOf(e) ==
    IF Present(e, "paths") /\ IsMapping(Get(e, "paths"))
    THEN Get(e, "paths") ELSE EmptyTable

\* entry e holds a path-valued field that is present and is no usable path
EntryPathFault(e) ==
    /\ IsMapping(e)
    /\ \/ Present(e, "base") /\ BadPath(Get(e, "base"))
       \/ Present(InstallOf(e), "root") /\ BadPath(Get(InstallOf(e), "root"))
       \/ Present(InstallOf(e), "executable") /\ BadPath(Get(InstallOf(e), "executable"))
       \/ \E j \in 1..Len(PathsOf(e).val) : BadPath(PathsOf(e).val[j][2])

PathFault(d) == \E i \in 1..Len(Entries(d)) : EntryPathFault(Entries(d)[i][2])

IsConfig(x) == x.kind = "VFXDirsConfig"

----------------------------------------------------------------------------
(* C5 *)

\* C5: from_mapping rejects every wrong-shaped table: when the root, `apps`,
\* an app entry, an app's `install` or an app's `paths` is present and is not
\* a table, from_mapping raises VFXDirsConfigError, and names that field when
\* it is the only thing wrong with the input
C5_RejectsWrongShape ==
    (pc = "parsed" /\ ShapeFaults(doc) # {}) =>
        /\ IsError(parsed)
        /\ (Cardinality(ShapeFaults(doc)) = 1 /\ ~PathFault(doc)) =>
             (parsed.msg = "table" /\ parsed.field \in ShapeFaults(doc))

----------------------------------------------------------------------------
(* C6 *)

\* C6: parsing is all-or-nothing on path values: when any base, install.root,
\* install.executable or paths entry of the input is present and is not a
\* string, or is empty after trimming, from_mapping raises VFXDirsConfigError
\* and returns no configuration
C6_AllOrNothing ==
    (pc # "edit" /\ PathFault(doc)) => (IsError(parsed) /\ ~IsConfig(parsed))

\* an app with a good base comes first, an app with a blank path follows, and
\* nothing of the first app is returned
C6_Witness ==
    /\ pc = "parsed"
    /\ Len(Entries(doc)) = 2
    /\ ~EntryPathFault(Entries(doc)[1][2])
    /\ Present(Entries(doc)[1][2], "base")
    /\ Present(Entries(doc)[2][2], "base")
    /\ Get(Entries(doc)[2][2], "base") = Str(<<" ">>)
    /\ IsError(parsed)
    /\ parsed.msg = "empty"

----------------------------------------------------------------------------
(* C8 *)

IsTrimmed(s) == s = <<>> \/ (s[1] \notin Whitespace /\ s[Len(s)] \notin Whitespace)

IsFolded(s) == \A i \in 1..Len(s) : LowerChar(s[i]) = s[i]

IsNormalized(s) == IsTrimmed(s) /\ IsFolded(s)

\* the trees at hand: parsed, directly constructed, merged
Trees == {t \in {parsed, direct, overlay} : IsConfig(t)}

\* every stored identifier and key is normalized, and every spelling finds it
StoredNormalized(t) ==
    \A a \in DOMAIN t.apps :
        /\ a # <<>> /\ IsNormalized(a)
        /\ \A s \in Spellings(a) : VFXDirsConfig_app(t, s) = t.apps[a]
        /\ \A k \in DOMAIN t.apps[a].paths :
            /\ IsNormalized(k)
            /\ \A s \in Spellings(k) :
                /\ AppConfig_path_override(t.apps[a], s) = t.apps[a].paths[k]
                /\ VFXDirsConfig_path_override(t, a, s) = t.apps[a].paths[k]

\* item j of a raw mapping is the last one of its normalized key
IsLast(items, j) ==
    \A l \in (j + 1)..Len(items) :
        normalize_key(items[l][1]) # normalize_key(items[j][1])

\* what from_mapping stores for an accepted raw path of doc
StoredPath(v) ==
    _parse_path(v, Context_env(ParseContext, ParseHeap), ParseContext.home,
                ConfigDir, "", <<>>, <<>>)

\* the tree t built from the items of doc holds, for every normalized
\* identifier and key, what the last raw item of that name gives;
\* conv turns a raw path of doc into the path the tree was given
LaterWins(t, conv(_)) ==
    \A j \in 1..Len(Entries(doc)) :
        IsLast(Entries(doc), j) =>
            LET e == Entries(doc)[j][2]
                app == t.apps[normalize_key(Entries(doc)[j][1])]
            IN  /\ app.base = (IF Present(e, "base") THEN conv(Get(e, "base")) ELSE None)
                /\ DOMAIN app.paths =
                     {normalize_key(PathsOf(e).val[i][1]) : i \in 1..Len(PathsOf(e).val)}
                /\ \A i \in 1..Len(PathsOf(e).val) :
                     IsLast(PathsOf(e).val, i) =>
                        app.paths[normalize_key(PathsOf(e).val[i][1])]
                            = conv(PathsOf(e).val[i][2])

DirectPath(v) == PathOf(v.val)

\* C8: in every configuration tree obtained by direct construction, by
\* from_mapping or by merging such trees, every app identifier and every paths
\* key is stored trimmed and case-folded, identifiers non-empty, so a lookup by
\* any spelling finds the one entry; and when two raw keys or identifiers of a
\* source mapping normalize equal, the later one's value is the one stored
C8_Normalized ==
    /\ \A t \in Trees : StoredNormalized(t)
    /\ (pc # "edit" /\ IsConfig(parsed)) => LaterWins(parsed, StoredPath)
    /\ (pc \in {"built", "merged"} /\ IsConfig(direct)) => LaterWins(direct, DirectPath)

\* the raw mapping spells one app two ways with two bases; the parsed and the
\* constructed tree hold one app with the later base, and the merged tree
\* holds the key the defaults spelled " L" under "l"
C8_Witness ==
    /\ pc = "merged"
    /\ Len(Entries(doc)) = 2
    /\ Entries(doc)[1][1] = <<"m">>
    /\ Entries(doc)[2][1] = <<" ", "M">>
    /\ Present(Entries(doc)[1][2], "base")
    /\ Present(Entries(doc)[2][2], "base")
    /\ Get(Entries(doc)[1][2], "base") # Get(Entries(doc)[2][2], "base")
    /\ IsConfig(parsed)
    /\ DOMAIN parsed.apps = {<<"m">>}
    /\ parsed.apps[<<"m">>].base = StoredPath(Get(Entries(doc)[2][2], "base"))
    /\ IsConfig(overlay)
    /\ DOMAIN overlay.apps = {<<"m">>}
    /\ <<"l">> \in DOMAIN overlay.apps[<<"m">>].paths

----------------------------------------------------------------------------
(* C7 *)

\* step (1): a leading "~", alone or followed by a separator, becomes home
TildeStep(s, home) ==
    IF s # <<>> /\ Head(s) = "~" /\ (Len(s) = 1 \/ s[2] \in {"/", "\\"})
    THEN home \o Tail(s)
    ELSE s

\* the characters of a NAME
IsNameChar(c) == c \notin NonWord

\* how many characters after the "$" at the head of s belong to a $NAME
RECURSIVE NameLen(_)
NameLen(s) == IF s # <<>> /\ IsNameChar(Head(s)) THEN 1 + NameLen(Tail(s)) ELSE 0

\* the length of the reference $NAME or ${NAME} at the head of s, 0 for none
RefLen(s) ==
    IF s = <<>> \/ Head(s) # "$" THEN 0
    ELSE IF NameLen(Tail(s)) > 0 THEN 1 + NameLen(Tail(s))
    ELSE IF Len(s) >= 4 /\ s[2] = "{" /\ s[3] # "}" /\ \E j \in 4..Len(s) : s[j] = "}"
         THEN CHOOSE j \in 4..Len(s) : s[j] = "}" /\ \A k \in 4..(j - 1) : s[k] # "}"
    ELSE 0

\* the NAME of the reference of length n at the head of s
RefName(s, n) == IF s[2] = "{" THEN SubSeq(s, 3, n - 1) ELSE SubSeq(s, 2, n)

\* step (2): every reference is replaced by its value in env, once, left to
\* right; a reference to a name env does not hold stays as written
RECURSIVE EnvStep(_, _)
EnvStep(s, env) ==
    IF s = <<>> THEN <<>>
    ELSE IF RefLen(s) = 0 THEN <<Head(s)>> \o EnvStep(Tail(s), env)
    ELSE (IF RefName(s, RefLen(s)) \in DOMAIN env
          THEN env[RefName(s, RefLen(s))]
          ELSE SubSeq(s, 1, RefLen(s)))
         \o EnvStep(SubSeq(s, RefLen(s) + 1, Len(s)), env)

\* step (3): what is not absolute goes under base_dir
JoinStep(s, base_dir) ==
    IF s # <<>> /\ Head(s) = "/" THEN PathOf(s) ELSE JoinPath(base_dir, PathOf(s))

ThreeSteps(s) ==
    JoinStep(EnvStep(TildeStep(s, <<"/", "h">>), penv), ConfigDir)

\* every path-valued field of the stored app holds p
StoredEverywhere(p) ==
    /\ stored.apps[<<"m">>].base = p
    /\ stored.apps[<<"m">>].install.root = p
    /\ stored.apps[<<"m">>].install.executable = p
    /\ stored.apps[<<"m">>].paths[<<"c">>] = p

\* C7 as stated: every raw path value accepted by from_mapping is stored as
\* the result of the three steps (leading "~" to home, then $NAME and ${NAME}
\* from the supplied mapping with unknown names left as written, then joined
\* under base_dir when not absolute) applied to the raw value
C7_ThreeStepsOnRaw ==
    (pc = "stored" /\ IsConfig(stored)) => StoredEverywhere(ThreeSteps(typed))

\* C7 as amended: every raw path value accepted by from_mapping is stored as
\* the result of the three steps, in that order, applied to the raw value
\* with its surrounding whitespace trimmed; what is not absolute lies under
\* base_dir, not under the working directory /w
C7_ThreeStepsOnTrimmed ==
    (pc = "stored" /\ IsConfig(stored)) => StoredEverywhere(ThreeSteps(Strip(typed)))

\* "$X" is written, X holds "~": the "~" that the environment brings in is not
\* expanded, and the relative result lies under base_dir
C7_Witness ==
    /\ pc = "stored"
    /\ typed = <<" ", "$", "X">>
    /\ penv = (<<"X">> :> <<"~">>)
    /\ IsConfig(stored)
    /\ stored.apps[<<"m">>].base = PathOf(<<"/", "c", "f", "g", "/", "~">>)

----------------------------------------------------------------------------
(* C9 *)

\* the fields of the Context as a reader sees them now
CtxView == [built EXCEPT !.env = mem[built.env.id]]

\* C9: once Context.from_env, AppConfig(...) and VFXDirsConfig(...) have
\* returned, no later change of the environment or of a mapping the caller
\* supplied, and no merge, changes any field of the constructed objects,
\* Context.env included
C9_Immutable ==
    [][pc = "built" =>
          /\ CtxView' = CtxView
          /\ madeApp' = madeApp
          /\ madeCfg' = madeCfg]_vars

----------------------------------------------------------------------------
(* C10 *)

\* <home>/rel
Under(home, rel) == PathOf(StrOfPath(home) \o <<"/">> \o rel)

\* the environment the Context was built from, while nothing has changed it
BuiltEnv == mem[built.env.id]

IsSet(name) == name \in DOMAIN BuiltEnv

IsSetNonEmpty(name) == name \in DOMAIN BuiltEnv /\ BuiltEnv[name] # <<>>

LinuxHomes ==
    /\ built.config_home = IF IsSet(XDG_CONFIG_HOME) THEN PathOf(BuiltEnv[XDG_CONFIG_HOME])
                           ELSE Under(built.home, <<".", "c", "o", "n", "f", "i", "g">>)
    /\ built.data_home = IF IsSet(XDG_DATA_HOME) THEN PathOf(BuiltEnv[XDG_DATA_HOME])
                         ELSE Under(built.home, <<".", "l", "o", "c", "a", "l", "/", "s", "h", "a", "r", "e">>)
    /\ built.cache_home = IF IsSet(XDG_CACHE_HOME) THEN PathOf(BuiltEnv[XDG_CACHE_HOME])
                          ELSE Under(built.home, <<".", "c", "a", "c", "h", "e">>)

MacosHomes ==
    /\ built.config_home = Under(built.home, <<"L", "i", "b", "r", "a", "r", "y", "/", "A", "p", "p", "l", "i", "c", "a", "t", "i", "o", "n", " ", "S", "u", "p", "p", "o", "r", "t">>)
    /\ built.data_home = Under(built.home, <<"L", "i", "b", "r", "a", "r", "y", "/", "A", "p", "p", "l", "i", "c", "a", "t", "i", "o", "n", " ", "S", "u", "p", "p", "o", "r", "t">>)
    /\ built.cache_home = Under(built.home, <<"L", "i", "b", "r", "a", "r", "y", "/", "C", "a", "c", "h", "e", "s">>)

WindowsHomes(given(_)) ==
    /\ built.config_home = IF given(APPDATA) THEN PathOf(BuiltEnv[APPDATA])
                           ELSE Under(built.home, <<"A", "p", "p", "D", "a", "t", "a", "/", "R", "o", "a", "m", "i", "n", "g">>)
    /\ built.data_home = built.config_home
    /\ built.cache_home = IF given(LOCALAPPDATA) THEN PathOf(BuiltEnv[LOCALAPPDATA])
                          ELSE Under(built.home, <<"A", "p", "p", "D", "a", "t", "a", "/", "L", "o", "c", "a", "l">>)

Homes(given(_)) ==
    (pc \in {"ctx", "app", "built"} /\ nMut = 0) =>
        /\ built.os = "linux" => LinuxHomes
        /\ built.os = "macos" => MacosHomes
        /\ built.os = "windows" => WindowsHomes(given)

\* C10 as stated: on linux each of the three directories is its XDG variable
\* when set, else <home>/.config, <home>/.local/share, <home>/.cache; on macos
\* they are <home>/Library/Application Support (twice) and
\* <home>/Library/Caches whatever the environment holds; on windows
\* config_home and data_home are APPDATA when set, else <home>/AppData/Roaming,
\* and cache_home is LOCALAPPDATA when set, else <home>/AppData/Local
C10_HomesWhenSet == Homes(IsSet)

\* C10 as amended: the same, except that on windows APPDATA and LOCALAPPDATA
\* are used only when set to a non-empty value
C10_HomesWhenNonEmpty == Homes(IsSetNonEmpty)

\* windows, the home overridden, APPDATA set to the empty string:
\* config_home is <home>/AppData/Roaming
C10_Witness ==
    /\ pc = "ctx"
    /\ built.os = "windows"
    /\ built.home = PathOf(<<"/", "u">>)
    /\ IsSet(APPDATA) /\ BuiltEnv[APPDATA] = <<>>
    /\ built.config_home = Under(built.home, <<"A", "p", "p", "D", "a", "t", "a", "/", "R", "o", "a", "m", "i", "n", "g">>)
    /\ built.data_home = built.config_home

====
